---- MODULE Spec2Model ----
(***************************************************************************)
(* Rule-based fraud decision engine (decision_engine.py).                  *)
(*                                                                         *)
(* The module import applies the REJECT_AT / REVIEW_AT environment         *)
(* overrides to the global DEFAULT_CONFIG; run() selects the configuration *)
(* (`config or DEFAULT_CONFIG`) and assess_row() evaluates one row through *)
(* the stages hard block, categorical risks, reputation, contextual risks, *)
(* frequency buffer and decision mapping.  Each stage is an operator       *)
(* translated from its function and an action that applies it; the row,    *)
(* the environment and the per-call configuration are the inputs, drawn    *)
(* in Init.                                                                *)
(***************************************************************************)
EXTENDS Integers, Sequences, FiniteSets, TLC

VARIABLES
    env,             \* os.environ: REJECT_AT and REVIEW_AT
    DEFAULT_CONFIG,  \* the module-level configuration dict (mutated at import)
    config,          \* the `config` argument of run(): None or a dict
    row,             \* the transaction record (a pandas Series)
    pc,              \* position in import / run / assess_row
    cfg,             \* the configuration assess_row is called with
    rep,             \* assess_row's local `rep`
    score,           \* assess_row's local `score`
    reasons,         \* assess_row's local `reasons` (a list of strings)
    result           \* the dict assess_row returns

vars == <<env, DEFAULT_CONFIG, config, row, pc, cfg, rep, score, reasons, result>>

-----------------------------------------------------------------------------
(* Python values *)

\* Python's None, where a string may stand (an unset environment variable).
None == "<None>"

\* A key the row does not have: row.get(key, default) gives the default.
Absent == "<absent>"

\* Cells of the numeric columns: an integer, NaN (an empty CSV cell) or a
\* string that is no number; or no such column at all.
IntCell(n) == [kind |-> "int", val |-> n]
NaNCell == [kind |-> "nan", val |-> 0]
TextCell == [kind |-> "text", val |-> 0]
AbsentCell == [kind |-> "absent", val |-> 0]

\* row.get(key, default) on a string column and on a numeric column.
Get(r, key, default) == IF r[key] = Absent THEN default ELSE r[key]
GetNum(r, key, default) == IF r[key].kind = "absent" THEN IntCell(default) ELSE r[key]

\* dict.get(key, default)
DictGet(d, key, default) == IF key \in DOMAIN d THEN d[key] ELSE default

\* int(x): raises ValueError on NaN and on a string that is no integer literal.
IntRaises(c) == c.kind \in {"nan", "text"}
IntOf(c) == c.val

\* float(x): raises ValueError on a string that is no number; NaN stays NaN.
FloatRaises(c) == c.kind = "text"
FloatOf(c) == [nan |-> c.kind = "nan", val |-> c.val]

\* f"{amount}" of a float: an integral float prints with ".0", NaN prints "nan".
FloatStr(x) == IF x.nan THEN "nan" ELSE ToString(x.val) \o ".0"

\* x >= t for a float x: every comparison with NaN is False.
FloatGe(x, t) == ~x.nan /\ x.val >= t

\* str.lower() on the strings the rows carry.
Lower(s) ==
    CASE s = "HIGH" -> "high"
      [] s = "High" -> "high"
      [] s = "Medium" -> "medium"
      [] s = "LOW" -> "low"
      [] s = "Trusted" -> "trusted"
      [] s = "RECURRENT" -> "recurrent"
      [] s = "New" -> "new"
      [] s = "Digital" -> "digital"
      [] OTHER -> s

\* str.upper() on the country codes the rows carry.
Upper(s) ==
    CASE s = "mx" -> "MX"
      [] s = "us" -> "US"
      [] s = "Mx" -> "MX"
      [] OTHER -> s

\* int(s) of an environment string: the integer literals the model sets.
EnvInts == ("3" :> 3) @@ ("4" :> 4) @@ ("6" :> 6) @@ ("12" :> 12)
EnvIntRaises(s) == s \notin DOMAIN EnvInts

\* ";".join(list)
RECURSIVE Join(_)
Join(l) ==
    IF l = <<>> THEN ""
    ELSE IF Len(l) = 1 THEN l[1]
    ELSE l[1] \o ";" \o Join(Tail(l))

-----------------------------------------------------------------------------
(* Constants and default configuration *)

DECISION_ACCEPTED == "ACCEPTED"
DECISION_IN_REVIEW == "IN_REVIEW"
DECISION_REJECTED == "REJECTED"

\* DEFAULT_CONFIG as compiled in, before the environment overrides.
CompiledConfig ==
    [amount_thresholds |->
        ("digital" :> 2500) @@ ("physical" :> 6000) @@
        ("subscription" :> 1500) @@ ("_default" :> 4000),
     latency_ms_extreme |-> 2500,
     chargeback_hard_block |-> 2,
     score_weights |->
        [ip_risk |-> ("low" :> 0) @@ ("medium" :> 2) @@ ("high" :> 4),
         email_risk |-> ("low" :> 0) @@ ("medium" :> 1) @@ ("high" :> 3) @@ ("new_domain" :> 2),
         device_fingerprint_risk |-> ("low" :> 0) @@ ("medium" :> 2) @@ ("high" :> 4),
         user_reputation |-> ("trusted" :> -2) @@ ("recurrent" :> -1) @@ ("new" :> 0) @@ ("high_risk" :> 4),
         night_hour |-> 1,
         geo_mismatch |-> 2,
         high_amount |-> 2,
         latency_extreme |-> 2,
         new_user_high_amount |-> 2],
     score_to_decision |-> [reject_at |-> 10, review_at |-> 4]]

-----------------------------------------------------------------------------
(* Utility functions *)

\* is_night with the boundary hours left out (> and < for >= and <=): the
\* slip C7's boundary property has to detect.
is_night_exclusive(hour) == hour > 22 \/ hour < 5

is_night(hour) == hour >= 22 \/ hour <= 5

high_amount(amount, product_type, thresholds) ==
    LET t == DictGet(thresholds, product_type, thresholds["_default"])
    IN  FloatGe(amount, t)

-----------------------------------------------------------------------------
(* Stages of assess_row.  A stage that takes and returns (score, reasons)   *)
(* is an operator from the pair to the pair; `raised` tells that it ended   *)
(* in an exception instead.                                                 *)

Ok(s, rs) == [raised |-> FALSE, score |-> s, reasons |-> rs]
Raised == [raised |-> TRUE, score |-> 0, reasons |-> <<>>]

_is_hard_block_raises(r, c) == IntRaises(GetNum(r, "chargeback_count", 0))

\* _is_hard_block without the ip_risk test: the slip C10 has to detect.
_is_hard_block_any_ip(r, c) ==
    IntOf(GetNum(r, "chargeback_count", 0)) >= c.chargeback_hard_block

\* _is_hard_block with > for >=: the slip C1 has to detect.
_is_hard_block_strict(r, c) ==
    /\ IntOf(GetNum(r, "chargeback_count", 0)) > c.chargeback_hard_block
    /\ Lower(Get(r, "ip_risk", "low")) = "high"

_is_hard_block(r, c) ==
    /\ IntOf(GetNum(r, "chargeback_count", 0)) >= c.chargeback_hard_block
    /\ Lower(Get(r, "ip_risk", "low")) = "high"

_reject_hard ==
    [decision |-> DECISION_REJECTED,
     risk_score |-> 100,
     reasons |-> "hard_block:chargebacks>=2+ip_high"]

\* One iteration of the loop over the categorical fields.
CategoricalField(r, c, field, st) ==
    LET val == Lower(Get(r, field, "low"))
        add == DictGet(c.score_weights[field], val, 0)
    IN  IF add # 0
        THEN Ok(st.score + add,
                Append(st.reasons, field \o ":" \o val \o "(+" \o ToString(add) \o ")"))
        ELSE st

_apply_categorical_risks(r, c, s, rs) ==
    CategoricalField(r, c, "device_fingerprint_risk",
        CategoricalField(r, c, "email_risk",
            CategoricalField(r, c, "ip_risk", Ok(s, rs))))

\* _apply_reputation that skips the negative weights (`if add > 0`): the slip
\* C5's amended statement has to detect.
_apply_reputation_positive_only(rp, c, s, rs) ==
    LET add == DictGet(c.score_weights.user_reputation, rp, 0)
    IN  IF add > 0
        THEN Ok(s + add,
                Append(rs, "user_reputation:" \o rp \o "(+" \o ToString(add) \o ")"))
        ELSE Ok(s, rs)

_apply_reputation(rp, c, s, rs) ==
    LET add == DictGet(c.score_weights.user_reputation, rp, 0)
    IN  IF add # 0
        THEN Ok(s + add,
                Append(rs, "user_reputation:" \o rp \o "("
                           \o (IF add >= 0 THEN "+" ELSE "") \o ToString(add) \o ")"))
        ELSE Ok(s, rs)

\* The night-hour block with the weight subtracted (`score -= add`): the slip
\* C6 has to detect.
NightHour_subtracts(r, c, st) ==
    LET hr == IntOf(GetNum(r, "hour", 12))
        add == c.score_weights.night_hour
    IN  IF hr >= 22 \/ hr <= 5
        THEN Ok(st.score - add,
                Append(st.reasons, "night_hour:" \o ToString(hr) \o "(+" \o ToString(add) \o ")"))
        ELSE st

\* The four blocks of _apply_contextual_risks, in order.
NightHour(r, c, st) ==
    LET hr == IntOf(GetNum(r, "hour", 12))
        add == c.score_weights.night_hour
    IN  IF is_night(hr)
        THEN Ok(st.score + add,
                Append(st.reasons, "night_hour:" \o ToString(hr) \o "(+" \o ToString(add) \o ")"))
        ELSE st

GeoMismatch(r, c, st) ==
    LET bin_c == Upper(Get(r, "bin_country", ""))
        ip_c == Upper(Get(r, "ip_country", ""))
        add == c.score_weights.geo_mismatch
    IN  IF bin_c # "" /\ ip_c # "" /\ bin_c # ip_c
        THEN Ok(st.score + add,
                Append(st.reasons, "geo_mismatch:" \o bin_c \o "!=" \o ip_c
                                   \o "(+" \o ToString(add) \o ")"))
        ELSE st

HighAmount(r, c, st, rp) ==
    LET amount == FloatOf(GetNum(r, "amount_mxn", 0))
        ptype == Lower(Get(r, "product_type", "_default"))
        add == c.score_weights.high_amount
        add2 == c.score_weights.new_user_high_amount
        s1 == st.score + add
        rs1 == Append(st.reasons, "high_amount:" \o ptype \o ":" \o FloatStr(amount)
                                  \o "(+" \o ToString(add) \o ")")
    IN  IF high_amount(amount, ptype, c.amount_thresholds)
        THEN IF rp = "new"
             THEN Ok(s1 + add2, Append(rs1, "new_user_high_amount(+" \o ToString(add2) \o ")"))
             ELSE Ok(s1, rs1)
        ELSE st

LatencyExtreme(r, c, st) ==
    LET lat == IntOf(GetNum(r, "latency_ms", 0))
        add == c.score_weights.latency_extreme
    IN  IF lat >= c.latency_ms_extreme
        THEN Ok(st.score + add,
                Append(st.reasons, "latency_extreme:" \o ToString(lat) \o "ms(+" \o ToString(add) \o ")"))
        ELSE st

_apply_contextual_risks(r, c, s, rs, rp) ==
    IF IntRaises(GetNum(r, "hour", 12)) THEN Raised
    ELSE IF FloatRaises(GetNum(r, "amount_mxn", 0)) THEN Raised
    ELSE IF IntRaises(GetNum(r, "latency_ms", 0)) THEN Raised
    ELSE LatencyExtreme(r, c, HighAmount(r, c, GeoMismatch(r, c, NightHour(r, c, Ok(s, rs))), rp))

\* _apply_frequency_buffer with `score >= 0` for `score > 0`: the slip C4 has
\* to detect.
_apply_frequency_buffer_nonneg(r, c, s, rs, rp) ==
    IF IntRaises(GetNum(r, "customer_txn_30d", 0)) THEN Raised
    ELSE LET freq == IntOf(GetNum(r, "customer_txn_30d", 0))
         IN  IF rp \in {"recurrent", "trusted"} /\ freq >= 3 /\ s >= 0
             THEN Ok(s - 1, Append(rs, "frequency_buffer(-1)"))
             ELSE Ok(s, rs)

_apply_frequency_buffer(r, c, s, rs, rp) ==
    IF IntRaises(GetNum(r, "customer_txn_30d", 0)) THEN Raised
    ELSE LET freq == IntOf(GetNum(r, "customer_txn_30d", 0))
         IN  IF rp \in {"recurrent", "trusted"} /\ freq >= 3 /\ s > 0
             THEN Ok(s - 1, Append(rs, "frequency_buffer(-1)"))
             ELSE Ok(s, rs)

\* _map_decision with > for >= at both thresholds: the slip C3 has to detect.
_map_decision_strict(s, rs, c) ==
    LET reject_at == c.score_to_decision.reject_at
        review_at == c.score_to_decision.review_at
        decision == IF s > reject_at THEN DECISION_REJECTED
                    ELSE IF s > review_at THEN DECISION_IN_REVIEW
                    ELSE DECISION_ACCEPTED
    IN  [decision |-> decision, risk_score |-> s, reasons |-> Join(rs)]

_map_decision(s, rs, c) ==
    LET reject_at == c.score_to_decision.reject_at
        review_at == c.score_to_decision.review_at
        decision == IF s >= reject_at THEN DECISION_REJECTED
                    ELSE IF s >= review_at THEN DECISION_IN_REVIEW
                    ELSE DECISION_ACCEPTED
    IN  [decision |-> decision, risk_score |-> s, reasons |-> Join(rs)]

\* No returned dict: before the call returns, or when it ends in an exception.
NoResult == [decision |-> None, risk_score |-> 0, reasons |-> ""]

\* assess_row as a function of (row, cfg): the returned dict, or NoResult when
\* the call ends in an exception.
assess_row(r, c) ==
    LET rp == Lower(Get(r, "user_reputation", "new"))
    IN  IF _is_hard_block_raises(r, c) THEN NoResult
        ELSE IF _is_hard_block(r, c) THEN _reject_hard
        ELSE LET s2 == _apply_categorical_risks(r, c, 0, <<>>)
                 s3 == _apply_reputation(rp, c, s2.score, s2.reasons)
                 s4 == _apply_contextual_risks(r, c, s3.score, s3.reasons, rp)
                 s5 == _apply_frequency_buffer(r, c, s4.score, s4.reasons, rp)
             IN  IF s4.raised \/ s5.raised THEN NoResult
                 ELSE _map_decision(s5.score, s5.reasons, c)

-----------------------------------------------------------------------------
(* Module import: the environment overrides of lines 36-47.  An int() that  *)
(* raises leaves the try block; what was assigned before it stays.          *)

ApplyEnvOverrides(d, e) ==
    IF e.REJECT_AT # None /\ EnvIntRaises(e.REJECT_AT) THEN d
    ELSE LET d1 == IF e.REJECT_AT # None
                   THEN [d EXCEPT !.score_to_decision.reject_at = EnvInts[e.REJECT_AT]]
                   ELSE d
         IN  IF e.REVIEW_AT # None /\ ~EnvIntRaises(e.REVIEW_AT)
             THEN [d1 EXCEPT !.score_to_decision.review_at = EnvInts[e.REVIEW_AT]]
             ELSE d1

\* The `config` argument of run(): None, or a dict.
NoConfig == [is_none |-> TRUE, dict |-> CompiledConfig]
Config(d) == [is_none |-> FALSE, dict |-> d]

-----------------------------------------------------------------------------
(* Inputs *)

MaxChargeback == 3
MaxTxn30d == 4

NoEnv == [REJECT_AT |-> None, REVIEW_AT |-> None]

\* Environments: unset, unparseable and integer overrides, among them
\* overrides that leave reject_at <= review_at.
Envs == [REJECT_AT : {None, "abc", "3", "6", "12"}, REVIEW_AT : {None, "ten", "6"}]

\* A configuration with other amount and latency thresholds.
OtherThresholds ==
    [CompiledConfig EXCEPT !.latency_ms_extreme = 900,
                           !.amount_thresholds = ("digital" :> 300) @@ ("_default" :> 700)]

\* Per-call configurations (tests and callers of run pass their own dict).
PerCallConfigs ==
    {[CompiledConfig EXCEPT !.chargeback_hard_block = n] : n \in 1..MaxChargeback}
    \cup {[CompiledConfig EXCEPT !.score_to_decision = [reject_at |-> 5, review_at |-> 1]]}
    \cup {[CompiledConfig EXCEPT !.score_weights.geo_mismatch = 100]}
    \cup {OtherThresholds}

\* The rows over a record of per-column value sets.
Rows(D) ==
    [chargeback_count : D.chargeback_count,
     ip_risk : D.ip_risk,
     email_risk : D.email_risk,
     device_fingerprint_risk : D.device_fingerprint_risk,
     user_reputation : D.user_reputation,
     hour : D.hour,
     bin_country : D.bin_country,
     ip_country : D.ip_country,
     amount_mxn : D.amount_mxn,
     product_type : D.product_type,
     latency_ms : D.latency_ms,
     customer_txn_30d : D.customer_txn_30d]

Ints(S) == {IntCell(n) : n \in S}

\* Every level of every categorical column, each contextual rule off and on.
ScoringColumns ==
    [chargeback_count |-> Ints(0..MaxChargeback),
     ip_risk |-> {"low", "medium", "high", "HIGH"},
     email_risk |-> {"low", "medium", "high", "new_domain"},
     device_fingerprint_risk |-> {"low", "medium", "high"},
     user_reputation |-> {"trusted", "Trusted", "recurrent", "new", "high_risk"},
     hour |-> Ints({12, 23}),
     bin_country |-> {"MX", "US"},
     ip_country |-> {"MX"},
     amount_mxn |-> Ints({100, 2500}),
     product_type |-> {"digital"},
     latency_ms |-> Ints({10, 2500}),
     customer_txn_30d |-> Ints(2..MaxTxn30d)]

\* Fewer rows, for the runs over every environment and configuration.
ConfigColumns ==
    [chargeback_count |-> Ints({0, MaxChargeback}),
     ip_risk |-> {"low", "high", "HIGH"},
     email_risk |-> {"low", "medium", "high"},
     device_fingerprint_risk |-> {"low", "medium"},
     user_reputation |-> {"trusted", "new", "high_risk"},
     hour |-> Ints({12, 23}),
     bin_country |-> {"MX", "US"},
     ip_country |-> {"MX"},
     amount_mxn |-> Ints({100, 2500}),
     product_type |-> {"digital"},
     latency_ms |-> Ints({10}),
     customer_txn_30d |-> Ints({MaxTxn30d})]

\* Every hour of the day, and amounts and latencies at and just below the
\* thresholds of both configurations, for known, unknown and absent product
\* types.
BoundaryColumns ==
    [chargeback_count |-> Ints({0}),
     ip_risk |-> {"low"},
     email_risk |-> {"low"},
     device_fingerprint_risk |-> {"low"},
     user_reputation |-> {"new", "recurrent"},
     hour |-> Ints(0..23) \cup {AbsentCell},
     bin_country |-> {"", "US", "mx"},
     ip_country |-> {"MX"},
     amount_mxn |-> Ints({299, 300, 699, 700, 1499, 1500, 2499, 2500,
                          3999, 4000, 5999, 6000}),
     product_type |-> {"digital", "Digital", "physical", "subscription", "gift", Absent},
     latency_ms |-> Ints({899, 900, 2499, 2500}) \cup {AbsentCell},
     customer_txn_30d |-> Ints({MaxTxn30d})]

\* Absent columns, empty cells (NaN), text in numeric columns and values
\* outside the enums.
MalformedColumns ==
    [chargeback_count |-> Ints({0, MaxChargeback}) \cup {AbsentCell, NaNCell, TextCell},
     ip_risk |-> {"high", "weird", Absent},
     email_risk |-> {"low"},
     device_fingerprint_risk |-> {"low", "unknown"},
     user_reputation |-> {"trusted", "vip", Absent},
     hour |-> Ints({23}) \cup {AbsentCell, TextCell},
     bin_country |-> {"US", Absent},
     ip_country |-> {"MX"},
     amount_mxn |-> Ints({2500}) \cup {AbsentCell, NaNCell, TextCell},
     product_type |-> {"digital", Absent},
     latency_ms |-> Ints({2500}) \cup {AbsentCell, NaNCell},
     customer_txn_30d |-> Ints({MaxTxn30d}) \cup {AbsentCell, TextCell}]

-----------------------------------------------------------------------------
(* The program *)

InitWith(e, a, r) ==
    /\ env = e
    /\ DEFAULT_CONFIG = CompiledConfig
    /\ config = a
    /\ row = r
    /\ pc = "import"
    /\ cfg = CompiledConfig
    /\ rep = ""
    /\ score = 0
    /\ reasons = <<>>
    /\ result = NoResult

Init ==
    \/ \E r \in Rows(ScoringColumns) : InitWith(NoEnv, NoConfig, r)
    \/ \E e \in Envs, r \in Rows(ConfigColumns) : InitWith(e, NoConfig, r)
    \/ \E d \in PerCallConfigs, r \in Rows(ConfigColumns) : InitWith(NoEnv, Config(d), r)
    \/ \E a \in {NoConfig, Config(OtherThresholds)}, r \in Rows(BoundaryColumns) :
          InitWith(NoEnv, a, r)
    \/ \E r \in Rows(MalformedColumns) : InitWith(NoEnv, NoConfig, r)

\* import decision_engine (lines 13-47)
ImportModule ==
    /\ pc = "import"
    /\ DEFAULT_CONFIG' = ApplyEnvOverrides(DEFAULT_CONFIG, env)
    /\ pc' = "run"
    /\ UNCHANGED <<env, config, row, cfg, rep, score, reasons, result>>

\* run: cfg = config or DEFAULT_CONFIG, and the call of assess_row to its
\* first lines (71-73).
Run ==
    /\ pc = "run"
    /\ cfg' = IF config.is_none THEN DEFAULT_CONFIG ELSE config.dict
    /\ score' = 0
    /\ reasons' = <<>>
    /\ rep' = Lower(Get(row, "user_reputation", "new"))
    /\ pc' = "hard_block"
    /\ UNCHANGED <<env, DEFAULT_CONFIG, config, row, result>>

\* assess_row lines 76-77
HardBlock ==
    /\ pc = "hard_block"
    /\ IF _is_hard_block_raises(row, cfg)
       THEN pc' = "raised" /\ UNCHANGED result
       ELSE IF _is_hard_block(row, cfg)
            THEN pc' = "done" /\ result' = _reject_hard
            ELSE pc' = "categorical" /\ UNCHANGED result
    /\ UNCHANGED <<env, DEFAULT_CONFIG, config, row, cfg, rep, score, reasons>>

\* A stage `score, reasons = stage(...)`: its outcome st, and where to go on.
Stage(st, next) ==
    /\ IF st.raised
       THEN pc' = "raised" /\ UNCHANGED <<score, reasons>>
       ELSE pc' = next /\ score' = st.score /\ reasons' = st.reasons
    /\ UNCHANGED <<env, DEFAULT_CONFIG, config, row, cfg, rep, result>>

\* assess_row line 80
Categorical ==
    /\ pc = "categorical"
    /\ Stage(_apply_categorical_risks(row, cfg, score, reasons), "reputation")

\* assess_row line 83
Reputation ==
    /\ pc = "reputation"
    /\ Stage(_apply_reputation(rep, cfg, score, reasons), "contextual")

\* assess_row line 86
Contextual ==
    /\ pc = "contextual"
    /\ Stage(_apply_contextual_risks(row, cfg, score, reasons, rep), "frequency")

\* assess_row line 89
FrequencyBuffer ==
    /\ pc = "frequency"
    /\ Stage(_apply_frequency_buffer(row, cfg, score, reasons, rep), "decision")

\* assess_row line 92
MapDecision ==
    /\ pc = "decision"
    /\ result' = _map_decision(score, reasons, cfg)
    /\ pc' = "done"
    /\ UNCHANGED <<env, DEFAULT_CONFIG, config, row, cfg, rep, score, reasons>>

Next ==
    \/ ImportModule
    \/ Run
    \/ HardBlock
    \/ Categorical
    \/ Reputation
    \/ Contextual
    \/ FrequencyBuffer
    \/ MapDecision

Spec == Init /\ [][Next]_vars

-----------------------------------------------------------------------------
(* Vocabulary of the properties, read off the row and the configuration     *)

Range(l) == {l[i] : i \in DOMAIN l}

\* The value of a numeric column as documented: its default when absent.
NumValue(key, default) == IF row[key].kind = "absent" THEN default ELSE row[key].val
WellFormed(key) == row[key].kind \in {"int", "absent"}

\* chargeback_count >= chargeback_hard_block and ip_risk is 'high' in any case.
HardBlockCondition ==
    /\ WellFormed("chargeback_count")
    /\ NumValue("chargeback_count", 0) >= cfg.chargeback_hard_block
    /\ row.ip_risk \in {"high", "HIGH", "High"}

\* assess_row has been entered with cfg and has passed the hard-block check.
PastHardBlock == pc \in {"categorical", "reputation", "contextual", "frequency", "decision", "done"}

Returned == pc = "done"

HardBlockLabel(n) == "hard_block:chargebacks>=" \o ToString(n) \o "+ip_high"

DefaultWeights == cfg.score_weights = CompiledConfig.score_weights

\* C1: when chargeback_count >= cfg.chargeback_hard_block and ip_risk is high,
\* the call returns at the hard-block check: REJECTED, score 100, one
\* hard_block reason, and no stage has added a reason.
C1_HardBlockPrecedence ==
    (PastHardBlock /\ HardBlockCondition) =>
        /\ Returned
        /\ result.decision = "REJECTED"
        /\ result.risk_score = 100
        /\ result.reasons \in {HardBlockLabel(n) : n \in 0..9}
        /\ reasons = <<>>

\* A hard block on a row whose other columns are all risky, with a threshold
\* other than the default and ip_risk in upper case.
C1_Witness ==
    /\ Returned /\ HardBlockCondition
    /\ cfg.chargeback_hard_block = 3
    /\ row.ip_risk = "HIGH"
    /\ row.email_risk = "high" /\ row.user_reputation = "high_risk" /\ row.bin_country = "US"

\* C2: assess_row never ends in an exception.
C2_NeverRaises == pc # "raised"

\* C3: for a row that is not hard-blocked and reject_at > review_at, the
\* decision is REJECTED iff score >= reject_at, IN_REVIEW iff
\* review_at <= score < reject_at, ACCEPTED iff score < review_at.
C3_DecisionMapping ==
    LET reject_at == cfg.score_to_decision.reject_at
        review_at == cfg.score_to_decision.review_at
        s == result.risk_score
    IN  (Returned /\ ~HardBlockCondition /\ reject_at > review_at) =>
            /\ s = score
            /\ result.decision = "REJECTED" <=> s >= reject_at
            /\ result.decision = "IN_REVIEW" <=> (review_at <= s /\ s < reject_at)
            /\ result.decision = "ACCEPTED" <=> s < review_at

\* A score exactly at reject_at, under thresholds other than the defaults.
C3_Witness ==
    /\ Returned /\ ~HardBlockCondition
    /\ cfg.score_to_decision = [reject_at |-> 5, review_at |-> 1]
    /\ result.risk_score = 5 /\ result.decision = "REJECTED"

\* user_reputation is recurrent or trusted, customer_txn_30d >= 3 and the
\* score so far is strictly positive.
BufferApplies ==
    /\ Lower(Get(row, "user_reputation", "new")) \in {"recurrent", "trusted"}
    /\ WellFormed("customer_txn_30d") /\ NumValue("customer_txn_30d", 0) >= 3
    /\ score > 0

\* The frequency stage as C4 states it: one step of the stage.
C4_Step ==
    (pc = "frequency" /\ pc' = "decision") =>
        IF BufferApplies
        THEN score' = score - 1 /\ reasons' = Append(reasons, "frequency_buffer(-1)")
        ELSE /\ score' = score /\ reasons' = reasons
             /\ "frequency_buffer(-1)" \notin Range(reasons')

\* The row of C4's example: trusted, customer_txn_30d = 4, ip_risk = medium,
\* everything else at its low-risk base value (make_row of the tests).
TrustedMediumRow ==
    [chargeback_count |-> IntCell(0),
     ip_risk |-> "medium",
     email_risk |-> "low",
     device_fingerprint_risk |-> "low",
     user_reputation |-> "trusted",
     hour |-> IntCell(12),
     bin_country |-> "MX",
     ip_country |-> "MX",
     amount_mxn |-> IntCell(100),
     product_type |-> "digital",
     latency_ms |-> IntCell(10),
     customer_txn_30d |-> IntCell(4)]

-----------------------------------------------------------------------------
(* Monotonicity *)

CategoricalFields == {"ip_risk", "email_risk", "device_fingerprint_risk"}

\* The default weight of a level of a categorical column.
LevelWeight(field, v) == DictGet(CompiledConfig.score_weights[field], Lower(v), 0)

NightHours == {22, 23, 0, 1, 2, 3, 4, 5}

\* The threshold resolved for a row's product type.
ThresholdOf(r, c) ==
    LET p == Lower(Get(r, "product_type", "_default"))
    IN  IF p \in DOMAIN c.amount_thresholds
        THEN c.amount_thresholds[p]
        ELSE c.amount_thresholds["_default"]

\* The rows that differ from r in one categorical column, moved to a level of
\* larger default weight.
RiskierLevel(r) ==
    UNION {{[r EXCEPT ![f] = v] :
               v \in {w \in DOMAIN CompiledConfig.score_weights[f] :
                         LevelWeight(f, w) > LevelWeight(f, Get(r, f, "low"))}} :
           f \in CategoricalFields}

\* The rows that differ from r in one contextual condition, which does not
\* fire on r and fires on them.
RiskierContext(r, c) ==
    LET hour == IF r.hour.kind = "absent" THEN 12 ELSE r.hour.val
        bin_c == Upper(Get(r, "bin_country", ""))
        ip_c == Upper(Get(r, "ip_country", ""))
        t == ThresholdOf(r, c)
    IN  (IF hour \notin NightHours
         THEN {[r EXCEPT !.hour = IntCell(h)] : h \in NightHours} ELSE {})
        \cup
        (IF bin_c = "" \/ ip_c = "" \/ bin_c = ip_c
         THEN {[r EXCEPT !.bin_country = "US", !.ip_country = "MX"],
               [r EXCEPT !.bin_country = "MX", !.ip_country = "BR"]} ELSE {})
        \cup
        (IF r.amount_mxn.kind # "int" \/ r.amount_mxn.val < t
         THEN {[r EXCEPT !.amount_mxn = IntCell(a)] : a \in {t, t + 1000}} ELSE {})
        \cup
        (IF r.latency_ms.kind # "int" \/ r.latency_ms.val < c.latency_ms_extreme
         THEN {[r EXCEPT !.latency_ms = IntCell(l)] :
                  l \in {c.latency_ms_extreme, c.latency_ms_extreme + 500}} ELSE {})

Riskier(r, c) == RiskierLevel(r) \cup RiskierContext(r, c)

\* C6: under the default configuration, a row that differs from the evaluated
\* one in a single risk factor, made riskier, is evaluated to a risk_score
\* that is not lower.
C6_Monotonicity ==
    (Returned /\ cfg = CompiledConfig) =>
        \A r2 \in Riskier(row, cfg) :
            /\ assess_row(r2, cfg) # NoResult
            /\ assess_row(r2, cfg).risk_score >= result.risk_score

\* A row the frequency buffer applied to, one level of ip_risk below a hard
\* block.
C6_Witness ==
    /\ Returned /\ cfg = CompiledConfig
    /\ "frequency_buffer(-1)" \in Range(reasons)
    /\ result.risk_score = 1
    /\ \E r2 \in RiskierLevel(row) : assess_row(r2, cfg).risk_score = 100
    /\ \E r2 \in RiskierContext(row, cfg) : assess_row(r2, cfg).risk_score = 2

-----------------------------------------------------------------------------
(* Boundaries of the contextual stage *)

PastContextual == pc \in {"frequency", "decision", "done"} /\ ~HardBlockCondition

NightReason(h) ==
    "night_hour:" \o ToString(h) \o "(+" \o ToString(cfg.score_weights.night_hour) \o ")"

HighAmountReason(a) ==
    "high_amount:" \o Lower(Get(row, "product_type", "_default")) \o ":" \o ToString(a)
        \o ".0(+" \o ToString(cfg.score_weights.high_amount) \o ")"

LatencyReason(l) ==
    "latency_extreme:" \o ToString(l) \o "ms(+" \o ToString(cfg.score_weights.latency_extreme) \o ")"

\* C7: after the contextual stage of a row that is not hard-blocked,
\* high_amount has fired when amount_mxn equals the threshold resolved for
\* the product type, latency_extreme has fired when latency_ms equals
\* latency_ms_extreme, and night_hour has fired exactly for the hours 22, 23
\* and 0..5.
C7_InclusiveBoundaries ==
    PastContextual =>
        /\ (row.amount_mxn.kind = "int" /\ row.amount_mxn.val = ThresholdOf(row, cfg))
              => HighAmountReason(row.amount_mxn.val) \in Range(reasons)
        /\ (row.latency_ms.kind = "int" /\ row.latency_ms.val = cfg.latency_ms_extreme)
              => LatencyReason(row.latency_ms.val) \in Range(reasons)
        /\ \A h \in 0..23 :
              (WellFormed("hour") /\ NumValue("hour", 12) = h) =>
                  (NightReason(h) \in Range(reasons) <=> h \in NightHours)

\* Hour 5, the amount at the _default threshold of an unknown product type
\* and the latency at its threshold: all three have fired.
C7_Witness ==
    /\ Returned /\ ~HardBlockCondition
    /\ row.hour = IntCell(5)
    /\ row.product_type = "gift" /\ row.amount_mxn = IntCell(4000)
    /\ row.latency_ms = IntCell(2500)
    /\ result.risk_score = 1 + 2 + 2 + 2 + 2

-----------------------------------------------------------------------------
(* Hard-block label, configuration validation, the reserved score *)

\* C8: the reason of a hard-block rejection names the threshold of the
\* configuration passed to the call.
C8_LabelNamesThreshold ==
    (Returned /\ HardBlockCondition) =>
        result.reasons = HardBlockLabel(cfg.chargeback_hard_block)

\* C9: a configuration with reject_at <= review_at is refused when it is
\* constructed, so no score is mapped to a decision under one.
C9_NoEvaluationUnderInvertedThresholds ==
    (Returned /\ ~HardBlockCondition) =>
        cfg.score_to_decision.reject_at > cfg.score_to_decision.review_at

\* C10 as stated: under every configuration, a returned risk_score of 100
\* comes from a hard block only.
C10_HundredOnlyFromHardBlock ==
    (Returned /\ result.risk_score = 100) => HardBlockCondition

\* C10 amended: under the default score weights, a returned risk_score is 100
\* exactly when the hard-block condition held; every other result carries the
\* accumulated score, which lies between -2 and 22.
C10_HundredReservedUnderDefaultWeights ==
    (Returned /\ DefaultWeights) =>
        /\ result.risk_score = 100 <=> HardBlockCondition
        /\ ~HardBlockCondition => (result.risk_score = score /\ score \in -2..22)

\* The largest score the default weights give, on a row one chargeback short
\* of the hard block.
C10_Witness ==
    /\ Returned /\ DefaultWeights /\ ~HardBlockCondition
    /\ row.ip_risk = "high"
    /\ NumValue("chargeback_count", 0) = cfg.chargeback_hard_block - 1
    /\ result.risk_score > 15

====
